---- MODULE Spec2Model ----
(***************************************************************************)
(* Model of src/src/utility/survival.py: make_stratified_split and the     *)
(* helper multilabel_train_test_split it calls.                            *)
(*                                                                         *)
(* One call of make_stratified_split is a walk of pc through the function  *)
(* body: "start" (line 35), "normalise" (36-39), "label" (41-56),          *)
(* "split1" (58-59), "branch" (60-65), "assemble" (66-70), and then        *)
(* "returned" or "raised".                                                 *)
(*                                                                         *)
(* Numbers.  The fractions are Python floats; here they are exact          *)
(* rationals <<n, d>> in lowest terms with d > 0, and +, -, / are the      *)
(* rational operations.  The time column holds integers, for which the     *)
(* comparison of a value with a bin edge is decided exactly.               *)
(*                                                                         *)
(* Libraries.  sklearn.utils.shuffle and skmultilearn's                    *)
(* iterative_train_test_split are not part of the repository.  shuffle     *)
(* permutes all its arguments by one permutation drawn from the generator  *)
(* random_state names: a fixed permutation for an integer seed, any        *)
(* permutation for None (NumPy's global generator).                        *)
(* iterative_train_test_split receives no random state at line 23; the     *)
(* index set it puts in the test fold is a choice the caller does not      *)
(* control, so it is any subset of the rows, the train fold being the      *)
(* complement, both in the order of the shuffled input (the folds are      *)
(* index arrays in ascending order).                                       *)
(***************************************************************************)
EXTENDS Integers, Sequences, FiniteSets, TLC

VARIABLES
    args,      \* the arguments of the call in progress
    pc,        \* position in make_stratified_split
    frac,      \* frac_train, frac_valid, frac_test after lines 37-39
    stra_lab,  \* the label array of lines 43-54, one entry per row of df
    x_train,   \* line 58
    x_temp,    \* line 58
    y_temp,    \* line 58
    x_val,     \* lines 61, 63
    x_test,    \* lines 61, 63
    calls,     \* the invocations of multilabel_train_test_split, in order
    out,       \* the returned (df_train, df_val, df_test)
    err,       \* the exception that ended the call
    prev,      \* the outcome of the previous call (two-call runs only)
    round      \* 1 for the first call, 2 for the second

vars == <<args, pc, frac, stra_lab, x_train, x_temp, y_temp, x_val, x_test,
          calls, out, err, prev, round>>

----------------------------------------------------------------------------
\* Bounds of the model.

MaxRows == 2
MaxTime == 1
MaxSeed == 0
MaxFrac == 1
MaxBinRows == 3
MaxBinTime == 4
MaxFracTwice == 2

\* num=20 in np.linspace (lines 47 and 51): the number of bin edges.
NumEdges == 20

\* An unbound local or an absent value is <<>>; a bound one is <<value>>.
None == <<>>

Some(v) == <<v>>

Get(o) == o[1]

\* err while no exception has been raised.
NoError == "none"

\* df.columns (line 42); "id" stands for the feature columns, which tell the
\* subjects apart.
Columns == <<"id", "time", "event">>

----------------------------------------------------------------------------
\* The exceptions of make_stratified_split, under the names of the error
\* taxonomy.

\* AssertionError of line 35.
InvalidFractions == "AssertionError: Check train validation test fraction."

\* float division by zero, line 37.
ZeroDivisionError == "ZeroDivisionError"

\* ValueError of line 56.
InvalidPolicy == "ValueError: unrecognized stratify policy"

\* AssertionError of line 69.
InternalConsistencyFault == "AssertionError"

----------------------------------------------------------------------------
\* Arithmetic on the fractions.

Abs(x) == IF x < 0 THEN -x ELSE x

RECURSIVE GCD(_, _)
GCD(a, b) == IF b = 0 THEN a ELSE GCD(b, a % b)

\* The rational n/d (d # 0) in lowest terms with a positive denominator.
Rat(n, d) ==
    LET g == GCD(Abs(n), Abs(d))
        s == IF d < 0 THEN -1 ELSE 1
    IN  <<(s * n) \div g, (s * d) \div g>>

RatAdd(a, b) == Rat(a[1] * b[2] + b[1] * a[2], a[2] * b[2])

RatSub(a, b) == Rat(a[1] * b[2] - b[1] * a[2], a[2] * b[2])

RatMul(a, b) == Rat(a[1] * b[1], a[2] * b[2])

\* a / b for b # 0.
RatDiv(a, b) == Rat(a[1] * b[2], a[2] * b[1])

RatZero == <<0, 1>>

RatOne == <<1, 1>>

----------------------------------------------------------------------------
\* Sequences.

\* The subsequence of s at the positions in idx, in ascending order
\* (X[indexes, :] with an ascending index array).
RECURSIVE Take(_, _, _)
Take(s, idx, i) ==
    IF i > Len(s) THEN <<>>
    ELSE IF i \in idx THEN <<s[i]>> \o Take(s, idx, i + 1)
    ELSE Take(s, idx, i + 1)

Perms(n) == {p \in [1..n -> 1..n] : \A i, j \in 1..n : p[i] = p[j] => i = j}

Range(s) == {s[i] : i \in 1..Len(s)}

SeqMin(s) == CHOOSE m \in Range(s) : \A x \in Range(s) : m <= x

SeqMax(s) == CHOOSE m \in Range(s) : \A x \in Range(s) : x <= m

----------------------------------------------------------------------------
\* Tables.  A table is [columns, rows]; a row is [id, time, event].

\* df[col]
Column(df, col) == [i \in 1..Len(df.rows) |-> df.rows[i][col]]

\* pd.DataFrame(data=rows, columns=columns), lines 66-68.
DataFrame(rows, columns) == [columns |-> columns, rows |-> rows]

----------------------------------------------------------------------------
\* The stratification label, lines 43-56.

\* An if/elif chain whose last branch takes every other policy.
PolicyAny(policy) == TRUE

\* The test of the if/elif chain of lines 43-55.
PolicyRecognised(policy) == policy \in {"event", "time", "both"}

\* Edge k (k = 0 .. NumEdges-1) of np.linspace(start=lo, stop=hi, num=20) is
\* lo + k * (hi - lo) / (NumEdges - 1); EdgeLess is "edge k < v", with both
\* sides multiplied by NumEdges - 1.
EdgeLess(k, lo, hi, v) == lo * (NumEdges - 1) + k * (hi - lo) < v * (NumEdges - 1)

\* "edge k <= v".
EdgeLessEq(k, lo, hi, v) == lo * (NumEdges - 1) + k * (hi - lo) <= v * (NumEdges - 1)

\* np.digitize(v, bins, right=False): the number of edges <= v.
DigitizeLeft(v, lo, hi) == Cardinality({k \in 0..(NumEdges - 1) : EdgeLessEq(k, lo, hi, v)})

\* np.digitize(v, bins, right=True) for increasing bins: the index i with
\* bins[i-1] < v <= bins[i], which is the number of edges < v.
Digitize(v, lo, hi) == Cardinality({k \in 0..(NumEdges - 1) : EdgeLess(k, lo, hi, v)})

\* Lines 47-48 and 51-52: bins over [min, max] of the column, then digitize.
BinLabels(t) == [i \in 1..Len(t) |-> Digitize(t[i], SeqMin(t), SeqMax(t))]

\* The label array stra_lab; the last branch is np.stack([t, e], axis=1).
StratLabels(df, policy) ==
    IF policy = "event" THEN Column(df, "event")
    ELSE IF policy = "time" THEN BinLabels(Column(df, "time"))
    ELSE LET t == BinLabels(Column(df, "time"))
             e == Column(df, "event")
         IN  [i \in 1..Len(df.rows) |-> <<t[i], e[i]>>]

----------------------------------------------------------------------------
\* multilabel_train_test_split, lines 17-24.

\* The permutations shuffle may apply to n rows under random_state.
ShufflePerms(n, random_state) ==
    IF random_state = None THEN Perms(n)
    ELSE {[i \in 1..n |-> ((i + Get(random_state)) % n) + 1]}

\* A shuffle that permutes X and leaves y as it was.
ShuffleOnlyX(X, y, p) ==
    [X |-> [i \in 1..Len(X) |-> X[p[i]]], y |-> y]

\* A shuffle that samples with replacement (every draw the same row).
ShuffleReplace(X, y, p) ==
    [X |-> [i \in 1..Len(X) |-> X[p[1]]], y |-> [i \in 1..Len(y) |-> y[p[1]]]]

\* shuffle(X, y, random_state=random_state), line 22: X and y by the same p.
shuffle(X, y, p) ==
    [X |-> [i \in 1..Len(X) |-> X[p[i]]], y |-> [i \in 1..Len(y) |-> y[p[i]]]]

\* The index sets iterative_train_test_split may put in the test fold: a
\* test_size of 0 or 1 leaves one fold empty, anything else is the library's
\* choice.
TestIndexSets(n, test_size) ==
    IF test_size = RatZero THEN {{}}
    ELSE IF test_size = RatOne THEN {1..n}
    ELSE SUBSET (1..n)

\* iterative_train_test_split(X, y, test_size=test_size), line 23.
iterative_train_test_split(X, y, test_size) ==
    {[X_train |-> Take(X, (1..Len(X)) \ T, 1), y_train |-> Take(y, (1..Len(X)) \ T, 1),
      X_test |-> Take(X, T, 1), y_test |-> Take(y, T, 1)] :
        T \in TestIndexSets(Len(X), test_size)}

\* The results multilabel_train_test_split(X, y, test_size, random_state) may
\* return.
multilabel_train_test_split(X, y, test_size, random_state) ==
    UNION {LET s == shuffle(X, y, p)
           IN  iterative_train_test_split(s.X, s.y, test_size) :
               p \in ShufflePerms(Len(X), random_state)}

----------------------------------------------------------------------------
\* make_stratified_split, lines 26-70.

\* The assertion of line 35 without its third conjunct.
FractionsOkTwo(a) ==
    /\ a.frac_train[1] >= 0
    /\ a.frac_valid[1] >= 0

\* The assertion of line 35 with the sum required positive as well.
FractionsOkPositive(a) ==
    /\ a.frac_train[1] >= 0
    /\ a.frac_valid[1] >= 0
    /\ a.frac_test[1] >= 0
    /\ a.frac_train[1] + a.frac_valid[1] + a.frac_test[1] > 0

\* The condition asserted at line 35.
FractionsOk(a) ==
    /\ a.frac_train[1] >= 0
    /\ a.frac_valid[1] >= 0
    /\ a.frac_test[1] >= 0

\* frac_sum, line 36.
FracSum(a) == RatAdd(RatAdd(a.frac_train, a.frac_valid), a.frac_test)

\* Lines 37-39.
Normalised(a) ==
    [train |-> RatDiv(a.frac_train, FracSum(a)),
     valid |-> RatDiv(a.frac_valid, FracSum(a)),
     test  |-> RatDiv(a.frac_test, FracSum(a))]

\* test_size of the first split, line 58.
FirstTestSize(f) == RatSub(RatOne, f.train)

\* test_size of the second split, line 64.
SecondTestSize(f) == RatDiv(f.test, RatAdd(f.valid, f.test))

\* The test of line 60 on frac_test instead of frac_valid.
NoTestPart(f) == f.test = RatZero

\* The test of line 60.
NoValidPart(f) == f.valid = RatZero

\* Line 69 with the assertion removed (python -O, or the line deleted).
RowCountUnchecked(df, df_train, df_val, df_test) == TRUE

\* The condition asserted at line 69.
RowCountOk(df, df_train, df_val, df_test) ==
    Len(df.rows) = Len(df_train.rows) + Len(df_val.rows) + Len(df_test.rows)

Raise(e) ==
    /\ pc' = "raised"
    /\ err' = e

\* Line 35.
CheckFractions ==
    /\ pc = "start"
    /\ IF FractionsOk(args)
       THEN pc' = "normalise" /\ err' = err
       ELSE Raise(InvalidFractions)
    /\ UNCHANGED <<args, frac, stra_lab, x_train, x_temp, y_temp, x_val, x_test,
                   calls, out, prev, round>>

\* Lines 36-39.
Renormalise ==
    /\ pc = "normalise"
    /\ IF FracSum(args) = RatZero
       THEN Raise(ZeroDivisionError) /\ frac' = frac
       ELSE pc' = "label" /\ frac' = Some(Normalised(args)) /\ err' = err
    /\ UNCHANGED <<args, stra_lab, x_train, x_temp, y_temp, x_val, x_test,
                   calls, out, prev, round>>

\* Lines 41-56.
BuildLabel ==
    /\ pc = "label"
    /\ IF PolicyRecognised(args.stratify_colname)
       THEN pc' = "split1" /\ err' = err
            /\ stra_lab' = Some(StratLabels(args.df, args.stratify_colname))
       ELSE Raise(InvalidPolicy) /\ stra_lab' = stra_lab
    /\ UNCHANGED <<args, frac, x_train, x_temp, y_temp, x_val, x_test,
                   calls, out, prev, round>>

\* What calls records of one invocation.
Invocation(X, y, test_size, random_state) ==
    [X |-> X, y |-> y, test_size |-> test_size, random_state |-> random_state]

\* Lines 58-59.
FirstSplit ==
    /\ pc = "split1"
    /\ LET X == args.df.rows
           y == Get(stra_lab)
           ts == FirstTestSize(Get(frac))
       IN  /\ \E r \in multilabel_train_test_split(X, y, ts, args.random_state) :
                /\ x_train' = Some(r.X_train)
                /\ x_temp' = Some(r.X_test)
                /\ y_temp' = Some(r.y_test)
           /\ calls' = Append(calls, Invocation(X, y, ts, args.random_state))
    /\ pc' = "branch"
    /\ UNCHANGED <<args, frac, stra_lab, x_val, x_test, out, err, prev, round>>

\* Line 61: x_val, x_test = [], x_temp.
Degenerate(rest) == [x_val |-> <<>>, x_test |-> rest]

\* Lines 60-61.
SkipSecondSplit ==
    /\ pc = "branch"
    /\ NoValidPart(Get(frac))
    /\ x_val' = Some(Degenerate(Get(x_temp)).x_val)
    /\ x_test' = Some(Degenerate(Get(x_temp)).x_test)
    /\ pc' = "assemble"
    /\ UNCHANGED <<args, frac, stra_lab, x_train, x_temp, y_temp, calls, out, err,
                   prev, round>>

\* Lines 62-65.
SecondSplit ==
    /\ pc = "branch"
    /\ ~NoValidPart(Get(frac))
    /\ LET X == Get(x_temp)
           y == Get(y_temp)
           ts == SecondTestSize(Get(frac))
       IN  /\ \E r \in multilabel_train_test_split(X, y, ts, args.random_state) :
                /\ x_val' = Some(r.X_train)
                /\ x_test' = Some(r.X_test)
           /\ calls' = Append(calls, Invocation(X, y, ts, args.random_state))
    /\ pc' = "assemble"
    /\ UNCHANGED <<args, frac, stra_lab, x_train, x_temp, y_temp, out, err, prev, round>>

\* Lines 66-70.
Assemble ==
    /\ pc = "assemble"
    /\ LET columns == args.df.columns
           df_train == DataFrame(Get(x_train), columns)
           df_val == DataFrame(Get(x_val), columns)
           df_test == DataFrame(Get(x_test), columns)
       IN  IF RowCountOk(args.df, df_train, df_val, df_test)
           THEN /\ out' = Some([train |-> df_train, valid |-> df_val, test |-> df_test])
                /\ pc' = "returned"
                /\ err' = err
           ELSE Raise(InternalConsistencyFault) /\ out' = out
    /\ UNCHANGED <<args, frac, stra_lab, x_train, x_temp, y_temp, x_val, x_test,
                   calls, prev, round>>

----------------------------------------------------------------------------
\* The calls the model makes.

Policies == {"event", "time", "both", "bogus"}

Seeds == {None} \cup {Some(k) : k \in 0..MaxSeed}

Fracs == {Rat(n, 1) : n \in (-1)..MaxFrac}

\* The tables of 1..maxRows rows with times in 0..maxTime and event
\* indicators in events; row i has id i.
Tables(maxRows, maxTime, events) ==
    {DataFrame([i \in DOMAIN te |-> [id |-> i, time |-> te[i][1], event |-> te[i][2]]], Columns) :
        te \in UNION {[1..n -> (0..maxTime) \X events] : n \in 1..maxRows}}

\* The locals of a call that has not started.
Fresh ==
    /\ pc = "start"
    /\ frac = None
    /\ stra_lab = None
    /\ x_train = None
    /\ x_temp = None
    /\ y_temp = None
    /\ x_val = None
    /\ x_test = None
    /\ calls = <<>>
    /\ out = None
    /\ err = NoError

Init ==
    /\ args \in [df : Tables(MaxRows, MaxTime, {0, 1}), stratify_colname : Policies,
                 frac_train : Fracs, frac_valid : Fracs, frac_test : Fracs,
                 random_state : Seeds]
    /\ Fresh
    /\ prev = None
    /\ round = 1

Next ==
    \/ CheckFractions
    \/ Renormalise
    \/ BuildLabel
    \/ FirstSplit
    \/ SkipSecondSplit
    \/ SecondSplit
    \/ Assemble

Spec == Init /\ [][Next]_vars

----------------------------------------------------------------------------
\* The label builder on a wider range of times: calls with policy "time" or
\* "both" on tables of observed events with times in 0..MaxBinTime, with
\* and without a validation part.

InitBin ==
    /\ args \in [df : Tables(MaxBinRows, MaxBinTime, {1}), stratify_colname : {"time", "both"},
                 frac_train : {RatOne},
                 frac_valid : {RatZero, RatOne},
                 frac_test : {RatOne},
                 random_state : {Some(0)}]
    /\ Fresh
    /\ prev = None
    /\ round = 1

SpecBin == InitBin /\ [][Next]_vars

----------------------------------------------------------------------------
\* Two calls in a row on the same table, policy and seed: the second with
\* the fractions of the first multiplied by a positive factor (1: the same
\* arguments).

Scales == {<<1, 1>>, <<2, 1>>, <<1, 4>>}

Scaled(a, k) ==
    [a EXCEPT !.frac_train = RatMul(@, k), !.frac_valid = RatMul(@, k),
              !.frac_test = RatMul(@, k)]

\* What is kept of a finished call.
Outcome ==
    [args |-> args, pc |-> pc, out |-> out, err |-> err,
     sizes |-> [i \in 1..Len(calls) |-> calls[i].test_size]]

\* The caller calls make_stratified_split again.
Recall ==
    /\ round = 1
    /\ pc \in {"returned", "raised"}
    /\ \E k \in Scales : args' = Scaled(args, k)
    /\ prev' = Some(Outcome)
    /\ round' = 2
    /\ pc' = "start"
    /\ frac' = None
    /\ stra_lab' = None
    /\ x_train' = None
    /\ x_temp' = None
    /\ y_temp' = None
    /\ x_val' = None
    /\ x_test' = None
    /\ calls' = <<>>
    /\ out' = None
    /\ err' = NoError

InitTwice ==
    /\ args \in [df : Tables(MaxRows, MaxTime, {0, 1}), stratify_colname : Policies,
                 frac_train : {Rat(n, 1) : n \in 0..MaxFracTwice},
                 frac_valid : {Rat(n, 1) : n \in 0..MaxFracTwice},
                 frac_test : {Rat(n, 1) : n \in 0..MaxFracTwice},
                 random_state : Seeds]
    /\ Fresh
    /\ prev = None
    /\ round = 1

NextTwice == Next \/ Recall

SpecTwice == InitTwice /\ [][NextTwice]_vars

----------------------------------------------------------------------------
\* A splitter that breaks its contract: it loses the first row of the test
\* fold, or returns the first row of the train fold in the test fold as well.

FaultySplit(X, y, test_size, random_state) ==
    LET good == multilabel_train_test_split(X, y, test_size, random_state)
    IN  {[r EXCEPT !.X_test = Tail(@), !.y_test = Tail(@)] :
            r \in {g \in good : g.X_test # <<>>}}
        \cup
        {[r EXCEPT !.X_test = @ \o <<r.X_train[1]>>, !.y_test = @ \o <<r.y_train[1]>>] :
            r \in {g \in good : g.X_train # <<>>}}

\* Lines 58-59 with the faulty splitter.
FaultyFirstSplit ==
    /\ pc = "split1"
    /\ LET X == args.df.rows
           y == Get(stra_lab)
           ts == FirstTestSize(Get(frac))
       IN  /\ \E r \in FaultySplit(X, y, ts, args.random_state) :
                /\ x_train' = Some(r.X_train)
                /\ x_temp' = Some(r.X_test)
                /\ y_temp' = Some(r.y_test)
           /\ calls' = Append(calls, Invocation(X, y, ts, args.random_state))
    /\ pc' = "branch"
    /\ UNCHANGED <<args, frac, stra_lab, x_val, x_test, out, err, prev, round>>

\* Lines 62-65 with the faulty splitter.
FaultySecondSplit ==
    /\ pc = "branch"
    /\ ~NoValidPart(Get(frac))
    /\ LET X == Get(x_temp)
           y == Get(y_temp)
           ts == SecondTestSize(Get(frac))
       IN  /\ \E r \in FaultySplit(X, y, ts, args.random_state) :
                /\ x_val' = Some(r.X_train)
                /\ x_test' = Some(r.X_test)
           /\ calls' = Append(calls, Invocation(X, y, ts, args.random_state))
    /\ pc' = "assemble"
    /\ UNCHANGED <<args, frac, stra_lab, x_train, x_temp, y_temp, out, err, prev, round>>

InitFaulty ==
    /\ args \in [df : Tables(MaxRows, MaxTime, {0, 1}), stratify_colname : {"event"},
                 frac_train : {Rat(n, 1) : n \in 0..MaxFrac},
                 frac_valid : {Rat(n, 1) : n \in 0..MaxFrac},
                 frac_test : {Rat(n, 1) : n \in 0..MaxFrac},
                 random_state : {Some(0)}]
    /\ Fresh
    /\ prev = None
    /\ round = 1

NextFaulty == Next \/ FaultyFirstSplit \/ FaultySecondSplit

SpecFaulty == InitFaulty /\ [][NextFaulty]_vars

----------------------------------------------------------------------------
\* Properties.

Finished == pc \in {"returned", "raised"}

\* The rows of the three returned tables, train then valid then test.
ReturnedRows == Get(out).train.rows \o Get(out).valid.rows \o Get(out).test.rows

Occurrences(rows, r) == Cardinality({i \in 1..Len(rows) : rows[i] = r})

NegativeFraction ==
    \/ args.frac_train[1] < 0
    \/ args.frac_valid[1] < 0
    \/ args.frac_test[1] < 0

AllZeroFractions ==
    /\ args.frac_train[1] = 0
    /\ args.frac_valid[1] = 0
    /\ args.frac_test[1] = 0

UnrecognisedPolicy == args.stratify_colname \notin {"event", "time", "both"}

\* C1: whenever make_stratified_split returns, every row of the input table
\* occurs exactly once in train, valid and test taken together, and the three
\* tables hold no other row: they are pairwise disjoint and cover the input.
C1_Completeness ==
    pc = "returned" =>
        /\ Len(ReturnedRows) = Len(args.df.rows)
        /\ \A i \in 1..Len(args.df.rows) : Occurrences(ReturnedRows, args.df.rows[i]) = 1

\* A call that returned after two splits with rows in two different tables.
C1_Witness ==
    /\ pc = "returned"
    /\ Len(calls) = 2
    /\ Len(Get(out).train.rows) = 1
    /\ Len(Get(out).valid.rows) = 1
    /\ Get(out).train.rows[1].id = 2

\* C2: a second call with the arguments of the first (table, policy,
\* fractions, seed) returns the tables the first call returned.
C2_Determinism ==
    (/\ round = 2
     /\ pc = "returned"
     /\ Get(prev).pc = "returned"
     /\ Get(prev).args = args)
        => out = Get(prev).out

\* C3 as stated: every call with an unrecognised policy ends with
\* InvalidPolicy, returns no tables and never invokes the splitter.
C3_Original ==
    (UnrecognisedPolicy /\ Finished) =>
        /\ pc = "raised"
        /\ err = InvalidPolicy
        /\ out = None
        /\ calls = <<>>

\* C3 amended: a call with an unrecognised policy never invokes the splitter
\* and returns no tables; when its fractions are non-negative with a positive
\* sum it ends with InvalidPolicy (otherwise the fraction checks of lines
\* 35-37 fail first).
C3_InvalidPolicy ==
    UnrecognisedPolicy =>
        /\ pc \in {"start", "normalise", "label", "raised"}
        /\ out = None
        /\ calls = <<>>
        /\ (pc = "raised" /\ ~NegativeFraction /\ ~AllZeroFractions) => err = InvalidPolicy

C3_Witness ==
    /\ args.stratify_colname = "bogus"
    /\ pc = "raised"
    /\ err = InvalidPolicy

\* C4: a call with a negative fraction ends with InvalidFractions at line 35:
\* it never gets past the check, so no fraction is renormalised, no label is
\* built, the splitter is not invoked and no table is returned.
C4_InvalidFractions ==
    NegativeFraction =>
        /\ pc \in {"start", "raised"}
        /\ pc = "raised" => err = InvalidFractions
        /\ frac = None
        /\ stra_lab = None
        /\ calls = <<>>
        /\ out = None

\* Only frac_test is negative.
C4_Witness ==
    /\ args.frac_train[1] >= 0
    /\ args.frac_valid[1] >= 0
    /\ args.frac_test[1] < 0
    /\ pc = "raised"
    /\ err = InvalidFractions

\* C5: a second call on the same table, policy and seed with all three
\* fractions multiplied by one positive factor passes the same test_size to
\* each split, takes the same branch and returns the same partition.
C5_Renormalisation ==
    (/\ round = 2
     /\ pc = "returned"
     /\ Get(prev).pc = "returned")
        => /\ [i \in 1..Len(calls) |-> calls[i].test_size] = Get(prev).sizes
           /\ out = Get(prev).out

\* The part of C5 that is about the arithmetic alone: the second call passes
\* the test sizes of the first to the splitter, in the same number of
\* invocations, and ends the way the first did.
ScaleInvariantSizes ==
    (round = 2 /\ Finished) =>
        /\ [i \in 1..Len(calls) |-> calls[i].test_size] = Get(prev).sizes
        /\ pc = Get(prev).pc
        /\ err = Get(prev).err

\* C6: a call with frac_valid = 0 that returns has invoked the splitter once,
\* its valid table is empty with the columns of the input, its test table is
\* the rest partition of the first split, and len(test) = len(input) -
\* len(train).
C6_Degenerate ==
    (args.frac_valid[1] = 0 /\ pc = "returned") =>
        /\ Len(calls) = 1
        /\ Get(out).valid = [columns |-> args.df.columns, rows |-> <<>>]
        /\ Get(out).test.rows = Get(x_temp)
        /\ Len(Get(out).test.rows) = Len(args.df.rows) - Len(Get(out).train.rows)

C6_Witness ==
    /\ args.frac_valid[1] = 0
    /\ pc = "returned"
    /\ Get(out).train.rows # <<>>
    /\ Get(out).test.rows # <<>>

\* The time component of the label of row i.
TimeLabel(i) ==
    IF args.stratify_colname = "time" THEN Get(stra_lab)[i] ELSE Get(stra_lab)[i][1]

TimeOf(i) == args.df.rows[i].time

MinTime == SeqMin(Column(args.df, "time"))

MaxTimeOf == SeqMax(Column(args.df, "time"))

\* The index of the smallest of the n + 1 edges lo + k * (hi - lo) / n,
\* k = 0..n, that is >= v.
SmallestEdge(n, lo, hi, v) ==
    CHOOSE k \in 0..n :
        /\ n * (v - lo) <= k * (hi - lo)
        /\ \A j \in 0..n : n * (v - lo) <= j * (hi - lo) => k <= j

Labelled == stra_lab # None /\ args.stratify_colname \in {"time", "both"}

\* C7 as stated: the time label is the index of the smallest edge >= the
\* value among the edges of 20 equal-width bins over [min, max].
C7_Original ==
    Labelled =>
        \A i \in 1..Len(args.df.rows) :
            TimeLabel(i) = SmallestEdge(20, MinTime, MaxTimeOf, TimeOf(i))

\* C7 amended: the time label is the index (0..19) of the smallest edge >=
\* the value among 20 equally spaced edges over [min, max], that is 19
\* equal-width intervals; the minimum gets 0 and the label is non-decreasing
\* in the time.
C7_Binning ==
    Labelled =>
        /\ \A i \in 1..Len(args.df.rows) :
            /\ TimeLabel(i) = SmallestEdge(19, MinTime, MaxTimeOf, TimeOf(i))
            /\ TimeOf(i) = MinTime => TimeLabel(i) = 0
        /\ \A i, j \in 1..Len(args.df.rows) :
            TimeOf(i) <= TimeOf(j) => TimeLabel(i) <= TimeLabel(j)

\* Three times, the middle one strictly inside an interval.
C7_Witness ==
    /\ Labelled
    /\ args.stratify_colname = "time"
    /\ Column(args.df, "time") = <<3, 0, 1>>
    /\ Get(stra_lab) = <<19, 0, 7>>

RowCountMatches ==
    Len(Get(x_train)) + Len(Get(x_val)) + Len(Get(x_test)) = Len(args.df.rows)

\* C8: a call that reached line 69 returns only when the three tables have
\* as many rows together as the input; when the splitter handed back
\* partitions of another size the call ends with the assertion's fault and
\* returns nothing.  Both branches of line 60 lead through the check.
C8_RowCount ==
    /\ pc = "returned" => x_test # None /\ RowCountMatches
    /\ (Finished /\ x_test # None) =>
          IF RowCountMatches
          THEN pc = "returned"
          ELSE pc = "raised" /\ err = InternalConsistencyFault /\ out = None

\* The splitter lost a row and the call ended with the fault.
C8_Witness ==
    /\ pc = "raised"
    /\ err = InternalConsistencyFault
    /\ Len(Get(x_train)) + Len(Get(x_val)) + Len(Get(x_test)) < Len(args.df.rows)

\* C9: the second invocation of the splitter gets the rest rows of the first
\* split, test_size = frac_test / (frac_valid + frac_test), and for each of
\* those rows the label that was built for it from the full table.
C9_LabelCarryOver ==
    Len(calls) = 2 =>
        /\ args.frac_valid[1] > 0
        /\ calls[2].X = Get(x_temp)
        /\ calls[2].test_size = RatDiv(Get(frac).test, RatAdd(Get(frac).valid, Get(frac).test))
        /\ Len(calls[2].y) = Len(calls[2].X)
        /\ \A i \in 1..Len(calls[2].X) :
              calls[2].y[i] = Get(stra_lab)[calls[2].X[i].id]

\* The rest partition is the single row with the largest time: its carried
\* label is 19, where a label rebuilt from the rest alone would be 0.
C9_Witness ==
    /\ Len(calls) = 2
    /\ args.stratify_colname = "time"
    /\ Len(calls[2].X) = 1
    /\ calls[2].X[1].id = 2
    /\ calls[2].y = <<19>>

\* C10: a call with all three fractions zero passes line 35 and ends in the
\* division of line 37: no label is built, the splitter is not invoked and
\* no table is returned.
C10_ZeroSum ==
    AllZeroFractions =>
        /\ pc \in {"start", "normalise", "raised"}
        /\ pc = "raised" => err = ZeroDivisionError
        /\ frac = None
        /\ stra_lab = None
        /\ calls = <<>>
        /\ out = None

C10_Witness ==
    /\ AllZeroFractions
    /\ pc = "raised"
    /\ err = ZeroDivisionError

====
